---- MODULE Spec2Model ----
(***************************************************************************)
(* A model of load-rs' LoadTestRunner (src/src/lib.rs): the bounded        *)
(* fan-out of run() / run_from_dir() over buffer_unordered and the         *)
(* aggregation loop of process_stream().                                   *)
(*                                                                         *)
(* Durations are natural numbers of one time unit.  The rps field of       *)
(* LoadTestResult is a wall-clock float and is not modelled.               *)
(***************************************************************************)
EXTENDS Naturals, Integers, Sequences, FiniteSets, TLC

\* ------------------------------------------------------------------ bounds
MaxRequests == 3
MaxDuration == 1

\* ------------------------------------------------------------------ inputs
HttpMethod == {"Get", "Post", "Put", "Delete", "Patch", "Head"}
\* The methods the entry points are called with.  Put, Delete and Patch run the
\* same lines as Post with another client call, so Post stands for the four.
Methods == {"Get", "Head", "Post"}
Order == {"Sequential", "Random"}
Durations == 0..MaxDuration

\* What the transport gives back for one request: no response at all, or a
\* response with a status code.
StatusCodes == {200, 404, 500}
TransportError == [transport |-> "Err", status |-> 0]
RawResponses ==
    {TransportError} \cup {[transport |-> "Ok", status |-> s] : s \in StatusCodes}

\* The file stem of an in-memory request (base_file_name = None).
NoLabel == 0

VARIABLES
    requests,        \* LoadTestRunner.requests
    concurrency,     \* LoadTestRunner.concurrency
    api,             \* which entry point was called, "none" before the call
    method,          \* the method argument
    output_dir,      \* TRUE iff output_dir is Some(_)
    order,           \* the order argument of run_from_dir
    file_names,      \* run_from_dir's sorted file list
    body,            \* the body argument of run() or debug() and the bytes get_data gave
    pc,              \* position of the caller's task
    iter,            \* next item of stream::iter(0..requests)
    tasks,           \* buffer_unordered's in-progress queue: index -> future
    ready_to_run,    \* the queue's FIFO of futures waiting to be polled
    result,          \* process_stream's LoadTestResult accumulator
    cur,             \* the stream item being handled by the loop body
    started,         \* history: indices in the order their futures were created
    aggregated,      \* history: index -> number of times the loop body took its item
    delivered,       \* history: number of Ok and of Err items the stream yielded
    in_progress,     \* history: number of in_progress calls, and the result last passed
    files,           \* output files written so far, and the number of writes
    ret,             \* "none" | "Ok" | "Err(<failed step>)" | "panic"
    assignment       \* environment: index -> whether its request will succeed

vars == <<requests, concurrency, api, method, output_dir, order, file_names,
          body, pc, iter, tasks, ready_to_run, result, cur, started, aggregated,
          delivered, in_progress, files, ret, assignment>>

config == <<requests, concurrency>>
args == <<api, method, output_dir, order, file_names, body>>
history == <<started, aggregated, delivered, in_progress, files>>

\* ----------------------------------------------------------------- helpers
Min(a, b) == IF a <= b THEN a ELSE b
Max(a, b) == IF a >= b THEN a ELSE b

Range(s) == {s[i] : i \in DOMAIN s}

\* Insertion of x into an ascending sequence.
RECURSIVE Insert(_, _)
Insert(x, s) ==
    IF s = <<>> THEN <<x>>
    ELSE IF x <= Head(s) THEN <<x>> \o s
    ELSE <<Head(s)>> \o Insert(x, Tail(s))

\* Mutant: the sorted list keeps one element of each value, as a BTreeSet does.
RECURSIVE sort_dedup(_)
sort_dedup(s) ==
    IF s = <<>> THEN <<>>
    ELSE LET t == sort_dedup(Tail(s))
         IN  IF Head(s) \in Range(t) THEN t ELSE Insert(Head(s), t)

\* slice::sort / Vec::sort: the ascending rearrangement of s.
RECURSIVE sort(_)
sort(s) == IF s = <<>> THEN <<>> ELSE Insert(Head(s), sort(Tail(s)))

\* ------------------------------------------------------- LoadTestResult
LoadTestResult_new ==
    [success |-> 0, failures |-> 0, completed |-> 0, total_duration |-> 0,
     durations |-> <<>>, avg |-> 0, min |-> 0, max |-> 0,
     p50 |-> 0, p90 |-> 0, p95 |-> 0]

\* ------------------------------------------------------- request outcome
\* Mutant: only a server error is an error.
error_for_status_5xx(status) == IF status >= 500 /\ status < 600 THEN "Err" ELSE "Ok"

\* Response::error_for_status: a 4xx/5xx status becomes an error.
error_for_status(status) == IF status >= 400 /\ status < 600 THEN "Err" ELSE "Ok"

\* get/head/post/put/delete/patch: send().await? and then the status check.
send(raw, check_status) ==
    IF raw = TransportError THEN "Err"
    ELSE IF check_status THEN error_for_status(raw.status)
    ELSE "Ok"

\* -------------------------------------------------------- get_quantiles
\* Mutant: the nearest-rank index ceil(len * quantile) - 1.
quantile_index_nearest_rank(len, pct) == ((len * pct + 99) \div 100) - 1

\* index = (len as f64 * quantile) as usize, quantile given in percent.
quantile_index(len, pct) == (len * pct) \div 100

\* Mutant: an index out of range yields a sentinel instead of the zero duration.
get_quantiles_unwrap_or_max(durations, pcts) ==
    LET sorted == sort(durations)
    IN  [k \in DOMAIN pcts |->
            LET index == quantile_index(Len(sorted), pcts[k])
            IN  IF index + 1 \in DOMAIN sorted THEN sorted[index + 1]
                ELSE MaxDuration + 1]

get_quantiles(durations, pcts) ==
    LET sorted == sort(durations)
    IN  [k \in DOMAIN pcts |->
            LET index == quantile_index(Len(sorted), pcts[k])
            IN  IF index + 1 \in DOMAIN sorted THEN sorted[index + 1] ELSE 0]

\* ------------------------------------------------------ get_output_file
RECURSIVE to_string(_)
to_string(n) ==
    IF n < 10 THEN <<n>> ELSE to_string(n \div 10) \o <<n % 10>>

\* Mutant: the number is written without zero padding.
pad_none(digits, width) == digits

RECURSIVE pad(_, _)
pad(digits, width) ==
    IF Len(digits) >= width THEN digits ELSE pad(<<0>> \o digits, width)

\* Mutant: every file is named as a success.
get_output_file_always_success(num_requests, iteration, base_file_name, success) ==
    [prefix |-> "success",
     number |-> pad(to_string(iteration), Len(to_string(num_requests))),
     label  |-> base_file_name]

\* "{success|failure}-{iteration:0width$}[-{base_file_name}].json"
get_output_file(num_requests, iteration, base_file_name, success) ==
    [prefix |-> IF success THEN "success" ELSE "failure",
     number |-> pad(to_string(iteration), Len(to_string(num_requests))),
     label  |-> base_file_name]

\* ------------------------------------------------------ LoadTestRunner::new
\* The checks of new() with ca_cert, cert, key and insecure all None, in the
\* order of the code; the last message carries the two numbers.
NoError == [res |-> "Ok", error |-> "", concurrency |-> 0, requests |-> 0]
bail(message) == [res |-> "Err", error |-> message, concurrency |-> 0, requests |-> 0]

\* Mutant: the last check is written as its message reads, "must be less than".
LoadTestRunner_new_less_than(url, num_requests, num_concurrency) ==
    IF url = "" THEN bail("URL cannot be empty")
    ELSE IF num_requests = 0 THEN bail("Number of requests cannot be zero")
    ELSE IF num_concurrency = 0 THEN bail("Number of concurrency cannot be zero")
    ELSE IF num_concurrency >= num_requests
      THEN [res |-> "Err",
            error |-> "Number of concurrency: {} must be less than number of requests: {}",
            concurrency |-> num_concurrency, requests |-> num_requests]
    ELSE NoError

LoadTestRunner_new(url, num_requests, num_concurrency) ==
    IF url = "" THEN bail("URL cannot be empty")
    ELSE IF num_requests = 0 THEN bail("Number of requests cannot be zero")
    ELSE IF num_concurrency = 0 THEN bail("Number of concurrency cannot be zero")
    ELSE IF num_concurrency > num_requests
      THEN [res |-> "Err",
            error |-> "Number of concurrency: {} must be less than number of requests: {}",
            concurrency |-> num_concurrency, requests |-> num_requests]
    ELSE NoError

\* ------------------------------------------------------------------- state
NoItem ==
    [index |-> 0, raw |-> [transport |-> "none", status |-> 0], res |-> "none",
     duration |-> 0, label |-> NoLabel]
NoTasks == [i \in {} |-> 0]
NoBody == [source |-> "None", data |-> <<>>]

\* The environment is free: nothing is fixed about which requests succeed.
NoAssignment == <<>>

InitState ==
    /\ requests \in 1..MaxRequests
    /\ concurrency \in 1..requests
    /\ api = "none"
    /\ method = "Get"
    /\ output_dir = FALSE
    /\ order = "Sequential"
    /\ file_names = <<>>
    /\ body = NoBody
    /\ pc = "idle"
    /\ iter = 0
    /\ tasks = NoTasks
    /\ ready_to_run = <<>>
    /\ result = LoadTestResult_new
    /\ cur = NoItem
    /\ started = <<>>
    /\ aggregated = [i \in 0..(requests - 1) |-> 0]
    /\ delivered = [ok |-> 0, err |-> 0]
    /\ in_progress = [calls |-> 0, seen |-> LoadTestResult_new]
    /\ files = [written |-> {}, writes |-> 0, dirs |-> 0, reads |-> 0]
    /\ ret = "none"

Init == InitState /\ assignment = NoAssignment

\* Returning from run()/run_from_dir() drops the stream and every future in it.
Return(value) ==
    /\ ret' = value
    /\ pc' = "returned"
    /\ tasks' = NoTasks
    /\ ready_to_run' = <<>>

\* ------------------------------------------------------------ entry points
\* get_data: Body::Data gives its bytes; Body::DataFile is read, and fails when
\* the path is not a file or cannot be read.
BodyInputs == {"None", "Data", "DataFile", "DataFile_missing"}
get_data(b) ==
    CASE b = "None" -> [res |-> "Ok", data |-> <<>>]
      [] b = "Data" -> [res |-> "Ok", data |-> <<1>>]
      [] b = "DataFile" -> [res |-> "Ok", data |-> <<1>>]
      [] b = "DataFile_missing" -> [res |-> "Err", data |-> <<>>]

\* files.reads counts the reads of the data file: one when it is a file, none
\* when is_file() fails first.
read_data_file(b) ==
    IF b = "DataFile" THEN [files EXCEPT !.reads = @ + 1] ELSE files

\* Mutant: a body that cannot be read is replaced by the empty body.
run_get_data_unchecked ==
    /\ pc = "idle"
    /\ \E m \in Methods, b \in BodyInputs, out \in BOOLEAN :
        /\ api' = "run"
        /\ method' = m
        /\ output_dir' = out
        /\ body' = [source |-> b, data |-> get_data(b).data]
        /\ files' = read_data_file(b)
        /\ pc' = "process_stream"
        /\ UNCHANGED <<ret, tasks, ready_to_run>>
    /\ UNCHANGED <<config, assignment, order, file_names, iter, result, cur, started,
                   aggregated, delivered, in_progress>>

run ==
    /\ pc = "idle"
    /\ \E m \in Methods, b \in BodyInputs, out \in BOOLEAN :
        /\ api' = "run"
        /\ method' = m
        /\ output_dir' = out
        /\ body' = [source |-> b, data |-> get_data(b).data]
        /\ files' = read_data_file(b)
        /\ IF get_data(b).res = "Err"
             THEN Return("Err(get_data)")
             ELSE /\ pc' = "process_stream"
                  /\ UNCHANGED <<ret, tasks, ready_to_run>>
    /\ UNCHANGED <<config, assignment, order, file_names, iter, result, cur, started,
                   aggregated, delivered, in_progress>>

\* get_file_names: the regular files of the directory in the order read_dir
\* lists them (file k has the stem k), or an error when it cannot be read.
Listings == {<<>>, <<1>>, <<1, 2>>, <<2, 1>>}

\* Mutant: the directory is listed first, the method is checked afterwards.
run_from_dir_lists_first ==
    /\ pc = "idle"
    /\ \E m \in Methods, ord \in Order, out \in BOOLEAN :
        /\ api' = "run_from_dir"
        /\ method' = m
        /\ order' = ord
        /\ output_dir' = out
        /\ \/ /\ Return("Err(read_dir)")
              /\ UNCHANGED file_names
           \/ /\ \E listing \in Listings : file_names' = sort(listing)
              /\ IF m \in {"Get", "Head"}
                   THEN Return("Err(method)")
                   ELSE /\ pc' = "process_stream"
                        /\ UNCHANGED <<ret, tasks, ready_to_run>>
    /\ UNCHANGED <<config, assignment, body, iter, result, cur, history>>

run_from_dir ==
    /\ pc = "idle"
    /\ \E m \in Methods, ord \in Order, out \in BOOLEAN :
        /\ api' = "run_from_dir"
        /\ method' = m
        /\ order' = ord
        /\ output_dir' = out
        /\ \/ /\ m \in {"Get", "Head"}
              /\ Return("Err(method)")
              /\ UNCHANGED file_names
           \/ /\ m \notin {"Get", "Head"}
              /\ Return("Err(read_dir)")
              /\ UNCHANGED file_names
           \/ /\ m \notin {"Get", "Head"}
              /\ \E listing \in Listings : file_names' = sort(listing)
              /\ pc' = "process_stream"
              /\ UNCHANGED <<ret, tasks, ready_to_run>>
    /\ UNCHANGED <<config, assignment, body, iter, result, cur, history>>

\* ---------------------------------------------------- debug, debug_from_dir
\* Mutant: debug requests are sent with error_for_status, as run() sends them.
debug_send_checked(file) ==
    \E raw \in RawResponses :
        /\ cur' = [index |-> 0, raw |-> raw, res |-> send(raw, TRUE),
                   duration |-> 0, label |-> file]
        /\ Return(IF send(raw, TRUE) = "Ok" THEN "Ok(Response)" ELSE "Err(send)")

\* One request, sent without error_for_status; cur holds the response received
\* and the file it was read from.
debug_send(file) ==
    \E raw \in RawResponses :
        /\ cur' = [index |-> 0, raw |-> raw, res |-> send(raw, FALSE),
                   duration |-> 0, label |-> file]
        /\ Return(IF send(raw, FALSE) = "Ok" THEN "Ok(Response)" ELSE "Err(send)")

debug ==
    /\ pc = "idle"
    /\ \E m \in Methods, b \in BodyInputs :
        /\ api' = "debug"
        /\ method' = m
        /\ body' = [source |-> b, data |-> get_data(b).data]
        /\ files' = read_data_file(b)
        /\ IF get_data(b).res = "Err"
             THEN /\ Return("Err(get_data)")
                  /\ UNCHANGED cur
             ELSE debug_send(NoLabel)
    /\ UNCHANGED <<config, assignment, output_dir, order, file_names, iter, result, started,
                   aggregated, delivered, in_progress>>

debug_from_dir ==
    /\ pc = "idle"
    /\ \E m \in Methods, ord \in Order :
        /\ api' = "debug_from_dir"
        /\ method' = m
        /\ order' = ord
        /\ \/ /\ m \in {"Get", "Head"}
              /\ Return("Err(method)")
              /\ UNCHANGED <<file_names, cur>>
           \/ /\ m \notin {"Get", "Head"}
              /\ Return("Err(read_dir)")
              /\ UNCHANGED <<file_names, cur>>
           \/ /\ m \notin {"Get", "Head"}
              /\ \E listing \in Listings :
                    /\ file_names' = sort(listing)
                    /\ IF listing = <<>>
                         THEN \* file_names[0] and random_range(0..0) panic
                              /\ Return("panic")
                              /\ UNCHANGED cur
                         ELSE \E file \in IF ord = "Sequential"
                                            THEN {sort(listing)[1]}
                                            ELSE Range(listing) :
                                 \/ /\ Return("Err(read)")
                                    /\ UNCHANGED cur
                                 \/ debug_send(file)
    /\ UNCHANGED <<config, assignment, output_dir, body, iter, result, history>>

\* ---------------------------------------------------------- process_stream
\* The prologue: a fresh accumulator, then create_dir_all when saving responses.
\* Mutant: a failure of create_dir_all is ignored and the run begins.
create_output_dir_unchecked ==
    /\ pc = "process_stream"
    /\ result' = LoadTestResult_new
    /\ pc' = "next"
    /\ \/ files' = [files EXCEPT !.dirs = IF output_dir THEN @ + 1 ELSE @]
       \/ /\ output_dir
          /\ UNCHANGED files
    /\ UNCHANGED <<config, assignment, args, iter, cur, started, aggregated, delivered,
                   in_progress, ret, tasks, ready_to_run>>

\* files.dirs counts the successful calls of create_dir_all.
create_output_dir ==
    /\ pc = "process_stream"
    /\ result' = LoadTestResult_new
    /\ \/ /\ pc' = "next"
          /\ files' = [files EXCEPT !.dirs = IF output_dir THEN @ + 1 ELSE @]
          /\ UNCHANGED <<ret, tasks, ready_to_run>>
       \/ /\ output_dir
          /\ Return("Err(create_dir_all)")
          /\ UNCHANGED files
    /\ UNCHANGED <<config, assignment, args, iter, cur, started, aggregated, delivered,
                   in_progress>>

\* Mutant: every call of poll_next starts the iteration again at 0.
stream_iter_restarts(from, n) == [j \in 1..n |-> j - 1]

\* Mutant: the items pulled by one call of poll_next come highest index first.
stream_iter_reversed(from, n) == [j \in 1..n |-> from + n - j]

\* stream::iter(0..requests): the next n items from position `from`.
stream_iter(from, n) == [j \in 1..n |-> from + j - 1]

\* Mutant: the queue is filled while it holds no more than `max` futures.
fill_count_off_by_one(len, max, remaining) == Min(max - len + 1, remaining)

\* Mutant: batching, a new batch is started only when the queue has drained.
fill_count_batched(len, max, remaining) ==
    IF len = 0 THEN Min(max, remaining) ELSE 0

\* BufferUnordered::poll_next, first half: futures are pulled from the mapped
\* iterator while the in-progress queue holds fewer than `max` of them.
fill_count(len, max, remaining) == Min(max - len, remaining)

\* The closure of .map(): the body file of request i.
\* Mutant: the file is chosen by the number of requests completed so far
\* instead of by the request index.
file_choices_by_completed(i) ==
    IF api = "run" THEN {NoLabel}
    ELSE IF order = "Sequential"
           THEN {file_names[(result.completed % Len(file_names)) + 1]}
    ELSE Range(file_names)

\* Mutant: Sequential order always takes the first entry, as debug_from_dir does.
file_choices_first(i) ==
    IF api = "run" THEN {NoLabel}
    ELSE IF order = "Sequential" THEN {file_names[1]}
    ELSE Range(file_names)

file_choices(i) ==
    IF api = "run" THEN {NoLabel}
    ELSE IF order = "Sequential" THEN {file_names[(i % Len(file_names)) + 1]}
    ELSE Range(file_names)

\* The bytes a request is built with: run()'s clone of body, or what
\* run_from_dir reads from the request's file (file k holds the bytes <<k>>).
request_body(file) == IF api = "run" THEN body.data ELSE <<file>>

\* Mutant: the queue is refilled as soon as a completion is taken, while the
\* loop body is still writing its output file.
calls_stream_next_or_writing == pc \in {"next", "write"}

\* The loop body has run to its end and the loop calls stream.next() again.
calls_stream_next == pc = "next"

\* stream.next() is called: the loop variables of the last iteration are gone,
\* and the queue is filled; a pushed future waits for its first poll.
fill ==
    /\ calls_stream_next
    /\ LET n == fill_count(Cardinality(DOMAIN tasks), concurrency, requests - iter)
           pushed == stream_iter(iter, n)
           new == Range(pushed)
       IN  IF api = "run_from_dir" /\ n > 0 /\ file_names = <<>>
             THEN \* i % 0 and random_range(0..0) panic
                  /\ Return("panic")
                  /\ UNCHANGED <<iter, started>>
             ELSE /\ \E choice \in [new -> Range(file_names) \cup {NoLabel}] :
                       /\ \A i \in new : choice[i] \in file_choices(i)
                       /\ tasks' = [i \in DOMAIN tasks \cup new |->
                                       IF i \in new
                                         THEN [st |-> "new", file |-> choice[i],
                                               data |-> request_body(choice[i])]
                                         ELSE tasks[i]]
                  /\ ready_to_run' = ready_to_run \o pushed
                  /\ started' = started \o pushed
                  /\ iter' = iter + n
                  /\ pc' = "polling"
                  /\ UNCHANGED ret
    /\ cur' = NoItem
    /\ UNCHANGED <<config, assignment, args, result, aggregated, delivered, in_progress, files>>

\* The label a request's item carries: the stem of its file in run_from_dir
\* (file k has the stem k), None otherwise.
file_stem(file) == IF api = "run_from_dir" THEN file ELSE NoLabel

\* Mutant: completions are also taken while an output file is being written.
awaiting_next_or_writing == pc \in {"polling", "write"}

\* The futures are polled only while the loop awaits stream.next().
awaiting_next == pc = "polling"

\* FuturesUnordered polls the futures of its ready-to-run queue in FIFO order.
next_ready(queue) == Head(queue)

\* The first poll of a future starts its I/O (fs::read, or the request).
poll_first ==
    /\ awaiting_next
    /\ ready_to_run # <<>>
    /\ LET i == next_ready(ready_to_run)
       IN  /\ tasks[i].st = "new"
           /\ tasks' = [tasks EXCEPT ![i].st = "io"]
           /\ ready_to_run' = Tail(ready_to_run)
    /\ UNCHANGED <<config, assignment, args, pc, iter, result, cur, history, ret>>

\* Mutant: a lost wakeup, the future is not put back on the ready queue.
wake_lost(i) ==
    /\ i \in DOMAIN tasks
    /\ tasks[i].st = "io"
    /\ tasks' = [tasks EXCEPT ![i].st = "woken"]
    /\ UNCHANGED <<config, assignment, args, pc, iter, ready_to_run, result, cur, history, ret>>

\* The runtime wakes a future whose I/O has finished.
wake(i) ==
    /\ i \in DOMAIN tasks
    /\ tasks[i].st = "io"
    /\ tasks' = [tasks EXCEPT ![i].st = "woken"]
    /\ ready_to_run' = Append(ready_to_run, i)
    /\ UNCHANGED <<config, assignment, args, pc, iter, result, cur, history, ret>>

\* The item a future of the stream resolves to: what the transport gave and
\* the measured duration; in run_from_dir also a failed fs::read, with
\* Duration::default(). The Err arm of process_stream never reads the duration
\* of a failed request, so one value, not zero, stands for it.
ReadError == [transport |-> "ReadErr", status |-> 0]
FailureDurations == {MaxDuration}
Outcomes ==
    ({raw \in RawResponses : send(raw, TRUE) = "Ok"} \X Durations)
        \cup ({raw \in RawResponses : send(raw, TRUE) = "Err"} \X FailureDurations)
        \cup (IF api \in {"run_from_dir", "run_from_manifest"}
                THEN {<<ReadError, 0>>} ELSE {})

\* Mutant: a request whose file could not be read is passed on as a success.
response_read_error_ok(raw) == IF raw = ReadError THEN "Ok" ELSE send(raw, TRUE)

response(raw) == IF raw = ReadError THEN "Err" ELSE send(raw, TRUE)

\* Whether request i can resolve to the outcome o: any outcome when the
\* environment is free, else one that succeeds exactly when the server and the
\* file system are set to let request i succeed.
assigned(i, o) ==
    IF assignment = NoAssignment THEN TRUE
    ELSE assignment[i] <=> response(o[1]) = "Ok"

\* Mutant: a failure does not count as completed.
on_failure_not_completed(r) == [r EXCEPT !.failures = @ + 1]

\* Mutant: the Err arm counts the request like the Ok arm.
update_counts_all_as_success(r, res, duration) ==
    [r EXCEPT !.completed = @ + 1,
              !.success = @ + 1,
              !.total_duration = @ + duration,
              !.avg = (r.total_duration + duration) \div (r.completed + 1),
              !.min = IF r.min = 0 THEN duration ELSE IF r.min <= duration THEN r.min ELSE duration,
              !.max = IF @ >= duration THEN @ ELSE duration,
              !.durations = Append(@, duration)]

\* Mutant: max is the duration of the latest success.
on_success_max_latest(r, duration) ==
    [r EXCEPT !.completed = @ + 1,
              !.success = @ + 1,
              !.total_duration = @ + duration,
              !.avg = (r.total_duration + duration) \div (r.completed + 1),
              !.min = IF r.min = 0 THEN duration ELSE Min(r.min, duration),
              !.max = duration,
              !.durations = Append(@, duration)]

\* Mutant: total_duration holds the duration of the latest success only.
on_success_total_latest(r, duration) ==
    [r EXCEPT !.completed = @ + 1,
              !.success = @ + 1,
              !.total_duration = duration,
              !.avg = duration \div (r.completed + 1),
              !.min = IF r.min = 0 THEN duration ELSE Min(r.min, duration),
              !.max = Max(@, duration),
              !.durations = Append(@, duration)]

\* The loop body up to its first await: counters and running statistics.
on_success(r, duration) ==
    [r EXCEPT !.completed = @ + 1,
              !.success = @ + 1,
              !.total_duration = @ + duration,
              !.avg = (r.total_duration + duration) \div (r.completed + 1),
              !.min = IF r.min = 0 THEN duration ELSE Min(r.min, duration),
              !.max = Max(@, duration),
              !.durations = Append(@, duration)]

\* Mutant: the failed request is recorded as a sample of Duration::default().
on_failure_zero_sample(r) ==
    [r EXCEPT !.completed = @ + 1,
              !.failures = @ + 1,
              !.durations = Append(@, 0),
              !.min = 0]

on_failure(r) ==
    [r EXCEPT !.completed = @ + 1,
              !.failures = @ + 1]

update(r, res, duration) ==
    IF res = "Ok" THEN on_success(r, duration) ELSE on_failure(r)

\* Mutant: in_progress is called in the Ok arm only.
call_in_progress_ok_arm(r) ==
    IF r.failures > in_progress.seen.failures
      THEN in_progress
      ELSE [calls |-> in_progress.calls + 1, seen |-> r]

\* in_progress(&result)
call_in_progress(r) == [calls |-> in_progress.calls + 1, seen |-> r]

\* stream.next() resolves to Some(item) with the item of future i, and the loop
\* body runs to its first await (the output file write) or, without
\* output_dir, through in_progress; `queue` is the ready-to-run queue left.
Take(i, o, queue) ==
    LET res == response(o[1])
        r == update(result, res, o[2])
    IN  /\ result' = r
        /\ cur' = [index |-> i, raw |-> o[1], res |-> res, duration |-> o[2],
                   label |-> file_stem(tasks[i].file)]
        /\ IF output_dir
             THEN /\ pc' = "write"
                  /\ UNCHANGED in_progress
             ELSE /\ pc' = "next"
                  /\ in_progress' = call_in_progress(r)
        /\ tasks' = [j \in DOMAIN tasks \ {i} |-> tasks[j]]
        /\ ready_to_run' = queue
        /\ aggregated' = [aggregated EXCEPT ![i] = @ + 1]
        /\ delivered' = IF res = "Ok"
                          THEN [delivered EXCEPT !.ok = @ + 1]
                          ELSE [delivered EXCEPT !.err = @ + 1]
        /\ UNCHANGED <<config, assignment, args, iter, started, files, ret>>

\* Mutant: .buffered(): items are yielded in submission order, the lowest
\* index in flight first.
deliver_in_order ==
    /\ awaiting_next
    /\ DOMAIN tasks # {}
    /\ LET i == CHOOSE i \in DOMAIN tasks : \A j \in DOMAIN tasks : i <= j
       IN  /\ tasks[i].st = "woken"
           /\ \E o \in Outcomes :
                /\ assigned(i, o)
                /\ Take(i, o, SelectSeq(ready_to_run, LAMBDA x : x # i))

\* A woken future is polled and completes.
deliver ==
    /\ awaiting_next
    /\ ready_to_run # <<>>
    /\ LET i == next_ready(ready_to_run)
       IN  /\ tasks[i].st = "woken"
           /\ \E o \in Outcomes :
                /\ assigned(i, o)
                /\ Take(i, o, Tail(ready_to_run))

\* In run(), send() can fail on the first poll of the future (a URL the client
\* cannot parse): the future completes without ever waiting.
poll_first_fails ==
    /\ awaiting_next
    /\ ready_to_run # <<>>
    /\ api = "run"
    /\ LET i == next_ready(ready_to_run)
       IN  /\ tasks[i].st = "new"
           /\ \E d \in FailureDurations :
                /\ assigned(i, <<TransportError, d>>)
                /\ Take(i, <<TransportError, d>>, Tail(ready_to_run))

\* Mutant: the file is numbered by the position of its request in the
\* completion order.
output_iteration_by_completed == result.completed

\* The iteration argument of get_output_file: `iteration + 1`, the index that
\* came with the item, counted from 1.
output_iteration == cur.index + 1

\* write_success_output_file / write_failure_output_file succeed, and the loop
\* body ends with in_progress(&result).
write_output_file ==
    /\ pc = "write"
    /\ files' = [written |-> files.written \cup
                                {get_output_file(requests, output_iteration, cur.label,
                                                 cur.res = "Ok")},
                 writes |-> files.writes + 1,
                 dirs |-> files.dirs,
                 reads |-> files.reads]
    /\ in_progress' = call_in_progress(result)
    /\ pc' = "next"
    /\ UNCHANGED <<config, assignment, args, iter, tasks, ready_to_run, result, cur,
                   started, aggregated, delivered, ret>>

\* Mutant: the write error is swallowed and the loop goes on.
write_output_file_error_swallowed ==
    /\ pc = "write"
    /\ in_progress' = call_in_progress(result)
    /\ pc' = "next"
    /\ UNCHANGED <<config, assignment, args, iter, tasks, ready_to_run, result, cur,
                   started, aggregated, delivered, files, ret>>

\* The write fails: `?` returns the error from process_stream.
write_output_file_fails ==
    /\ pc = "write"
    /\ Return("Err(write)")
    /\ UNCHANGED <<config, assignment, args, iter, result, cur, history>>

\* Mutant: the final average is taken over the successful requests.
finish_avg_over_success(r, num_requests) ==
    LET q == get_quantiles(r.durations, <<50, 90, 95>>)
    IN  [r EXCEPT !.durations = sort(@),
                  !.p50 = q[1],
                  !.p90 = q[2],
                  !.p95 = q[3],
                  !.avg = IF r.success > 0
                            THEN r.total_duration \div r.success
                            ELSE 0]

\* The statistics computed after the loop.
finish(r, num_requests) ==
    LET q == get_quantiles(r.durations, <<50, 90, 95>>)
    IN  [r EXCEPT !.durations = sort(@),
                  !.p50 = q[1],
                  !.p90 = q[2],
                  !.p95 = q[3],
                  !.avg = IF num_requests > 0
                            THEN r.total_duration \div num_requests
                            ELSE 0]

\* Mutant: the stream ends with the iterator, without draining the queue.
stream_end_undrained ==
    /\ pc = "polling"
    /\ iter = requests
    /\ result' = finish(result, requests)
    /\ Return("Ok")
    /\ UNCHANGED <<config, assignment, args, iter, cur, history>>

\* stream.next() resolves to None: nothing is in flight and the iterator is
\* exhausted.
stream_end ==
    /\ awaiting_next
    /\ DOMAIN tasks = {}
    /\ iter = requests
    /\ result' = finish(result, requests)
    /\ Return("Ok")
    /\ UNCHANGED <<config, assignment, args, iter, cur, history>>

Next ==
    \/ run
    \/ run_from_dir
    \/ debug
    \/ debug_from_dir
    \/ create_output_dir
    \/ fill
    \/ poll_first
    \/ poll_first_fails
    \/ \E i \in 0..(MaxRequests - 1) : wake(i)
    \/ deliver
    \/ write_output_file
    \/ write_output_file_fails
    \/ stream_end

Spec == Init /\ [][Next]_vars

\* -------------------------------------------------------- run_from_manifest
\* run_from_manifest is called by main.rs; its selection policy is that of
\* run_from_dir, over the entries parsed up front from the lines of the
\* manifest (entry k gives the body <<k>>), kept in the order of the lines.
Manifests == {<<1>>, <<1, 2>>, <<2, 1>>}

run_from_manifest ==
    /\ pc = "idle"
    /\ \E m \in Methods, ord \in Order, out \in BOOLEAN :
        /\ api' = "run_from_manifest"
        /\ method' = m
        /\ order' = ord
        /\ output_dir' = out
        /\ \/ /\ m \in {"Get", "Head"}
              /\ Return("Err(method)")
              /\ UNCHANGED file_names
           \/ /\ m \notin {"Get", "Head"}
              /\ Return("Err(manifest)")
              /\ UNCHANGED file_names
           \/ /\ m \notin {"Get", "Head"}
              /\ \E entries \in Manifests : file_names' = entries
              /\ pc' = "process_stream"
              /\ UNCHANGED <<ret, tasks, ready_to_run>>
    /\ UNCHANGED <<config, assignment, body, iter, result, cur, history>>

NextManifest ==
    \/ run_from_manifest
    \/ create_output_dir
    \/ fill
    \/ poll_first
    \/ \E i \in 0..(MaxRequests - 1) : wake(i)
    \/ deliver
    \/ write_output_file
    \/ write_output_file_fails
    \/ stream_end

SpecManifest == Init /\ [][NextManifest]_vars

\* The runtime keeps polling the caller's task, so each step of process_stream
\* that can be taken is taken, and the I/O of every started request finishes.
\* Progress is checked for the runners of up to MaxFairRequests requests.
MaxFairRequests == 2

InitFair == Init /\ requests <= MaxFairRequests

\* Runs in which the environment has fixed, before the call, which of the
\* requests succeed; the order in which they complete stays free.
MaxAssignedRequests == 2

InitAssigned ==
    /\ InitState
    /\ requests <= MaxAssignedRequests
    /\ assignment \in [0..(requests - 1) -> BOOLEAN]

SpecAssigned == InitAssigned /\ [][Next]_vars

FairSpec ==
    /\ InitFair
    /\ [][Next]_vars
    /\ WF_vars(create_output_dir)
    /\ WF_vars(fill)
    /\ WF_vars(poll_first)
    /\ \A i \in 0..(MaxRequests - 1) : WF_vars(wake(i))
    /\ WF_vars(deliver)
    /\ WF_vars(write_output_file)
    /\ WF_vars(stream_end)

\* ------------------------------------------------- the two pure functions
\* get_quantiles, get_output_file and new called on their own, as the unit
\* tests of lib.rs call them: cur holds the arguments, ret the returned value,
\* and result.durations the slice that get_quantiles sorts in place. Before
\* new() returns Ok there is no runner: requests and concurrency are 0.
MaxLen == 4
MaxSecs == 3
MaxNumRequests == 100

\* (1..=10).map(Duration::from_secs), and the same durations in reverse order.
TestDurations == {[i \in 1..10 |-> i], [i \in 1..10 |-> 11 - i]}
DurationLists ==
    UNION {[1..n -> 1..MaxSecs] : n \in 0..MaxLen} \cup TestDurations

\* The quantiles process_stream asks for, and the quantile 1.0.
Quantiles == {<<50, 90, 95>>, <<100>>}

Urls == {"", "http://localhost"}

InitFunctions ==
    /\ api \in {"get_quantiles", "get_output_file", "new"}
    /\ requests = IF api = "new" THEN 0 ELSE 1
    /\ concurrency = IF api = "new" THEN 0 ELSE 1
    /\ method = "Get"
    /\ output_dir = FALSE
    /\ order = "Sequential"
    /\ file_names = <<>>
    /\ body = NoBody
    /\ pc = "call"
    /\ iter = 0
    /\ tasks = NoTasks
    /\ ready_to_run = <<>>
    /\ \/ /\ api = "get_quantiles"
          /\ \E durations \in DurationLists, quantiles \in Quantiles :
                /\ cur = [durations |-> durations, quantiles |-> quantiles]
                /\ result = [LoadTestResult_new EXCEPT !.durations = durations]
       \/ /\ api = "get_output_file"
          /\ \E num_requests \in 1..MaxNumRequests, base_file_name \in {NoLabel, 1},
                success \in BOOLEAN :
                \E iteration \in 1..num_requests :
                    cur = [num_requests |-> num_requests, iteration |-> iteration,
                           base_file_name |-> base_file_name, success |-> success]
          /\ result = LoadTestResult_new
       \/ /\ api = "new"
          /\ \E url \in Urls, num_requests \in 0..MaxRequests,
                num_concurrency \in 0..(MaxRequests + 1) :
                cur = [url |-> url, requests |-> num_requests,
                       concurrency |-> num_concurrency]
          /\ result = LoadTestResult_new
    /\ started = <<>>
    /\ aggregated = [i \in {0} |-> 0]
    /\ delivered = [ok |-> 0, err |-> 0]
    /\ in_progress = [calls |-> 0, seen |-> LoadTestResult_new]
    /\ files = [written |-> {}, writes |-> 0, dirs |-> 0, reads |-> 0]
    /\ ret = "none"
    /\ assignment = NoAssignment

call_get_quantiles ==
    /\ pc = "call"
    /\ api = "get_quantiles"
    /\ ret' = get_quantiles(cur.durations, cur.quantiles)
    /\ result' = [result EXCEPT !.durations = sort(@)]
    /\ pc' = "returned"
    /\ UNCHANGED <<config, assignment, args, iter, tasks, ready_to_run, cur, history>>

call_get_output_file ==
    /\ pc = "call"
    /\ api = "get_output_file"
    /\ ret' = get_output_file(cur.num_requests, cur.iteration,
                              cur.base_file_name, cur.success)
    /\ pc' = "returned"
    /\ UNCHANGED <<config, assignment, args, iter, tasks, ready_to_run, result, cur, history>>

call_new ==
    /\ pc = "call"
    /\ api = "new"
    /\ ret' = LoadTestRunner_new(cur.url, cur.requests, cur.concurrency)
    /\ IF LoadTestRunner_new(cur.url, cur.requests, cur.concurrency).res = "Ok"
         THEN /\ requests' = cur.requests
              /\ concurrency' = cur.concurrency
         ELSE UNCHANGED config
    /\ pc' = "returned"
    /\ UNCHANGED <<assignment, args, iter, tasks, ready_to_run, result, cur,
                   history>>

NextFunctions ==
    \/ call_get_quantiles
    \/ call_get_output_file
    \/ call_new

SpecFunctions == InitFunctions /\ [][NextFunctions]_vars

\* ------------------------------------------------------------------ claims
RECURSIVE SumSeq(_)
SumSeq(s) == IF s = <<>> THEN 0 ELSE Head(s) + SumSeq(Tail(s))

NumAggregated == SumSeq([j \in 1..requests |-> aggregated[j - 1]])
InFlight == DOMAIN tasks
Position(queue, i) == CHOOSE k \in DOMAIN queue : queue[k] = i
HttpError(raw) == raw.transport = "Ok" /\ raw.status >= 400 /\ raw.status < 600

\* C1: at every point of run() and run_from_dir() the number of requests that
\* have been started and whose outcome has not been produced is at most the
\* configured concurrency.
C1_InFlightAtMostConcurrency ==
    /\ Len(started) - NumAggregated <= concurrency
    /\ Cardinality(InFlight) <= concurrency

\* C1 witness: run_from_dir with fewer slots than requests has all its slots in
\* flight after a first completion was aggregated.
C1_Witness ==
    /\ api = "run_from_dir"
    /\ concurrency = 2
    /\ requests = 3
    /\ NumAggregated = 1
    /\ Cardinality(InFlight) = 2

\* C2: bounded fan-out, not batching: when the k-th completion is handed to the
\* loop body, exactly min(N, C + k - 1) requests have been started.
C2_StartedAtKthCompletion ==
    (pc \in {"write", "next"} /\ NumAggregated >= 1)
        => Len(started) = Min(requests, concurrency + NumAggregated - 1)

\* C2 witness: the second completion is handed over with the third request
\* started while another request of the first two is still in flight.
C2_Witness ==
    /\ pc = "write"
    /\ concurrency = 2
    /\ NumAggregated = 2
    /\ Len(started) = 3
    /\ \E i \in InFlight : i < 2

\* C3: after every update of the accumulator, at every in_progress call and in
\* the returned result: completed = success + failures, completed <= N and the
\* durations list has success elements.
ResultConsistent(r) ==
    /\ r.completed = r.success + r.failures
    /\ r.completed <= requests
    /\ Len(r.durations) = r.success

C3_ResultConsistent == ResultConsistent(result) /\ ResultConsistent(in_progress.seen)

\* C3 witness: in_progress has seen a result with successes and failures.
C3_Witness ==
    /\ in_progress.calls >= 2
    /\ in_progress.seen.success >= 1
    /\ in_progress.seen.failures >= 1

\* C4: a run in which every request succeeds returns success = N, failures = 0
\* and completed = N.
C4_AllSucceed ==
    (ret = "Ok" /\ delivered.err = 0)
        => /\ result.success = requests
           /\ result.failures = 0
           /\ result.completed = requests

\* C4 witness: a run of three requests over two slots returns with no failed
\* request.
C4_Witness ==
    /\ ret = "Ok"
    /\ delivered.err = 0
    /\ delivered.ok = 3
    /\ concurrency = 2

\* C5: a run in which every request fails and no output directory error occurs
\* returns Ok with failures = N, success = 0 and completed = N.
OutputErrors == {"Err(create_dir_all)", "Err(write)"}

C5_AllFail ==
    (pc = "returned" /\ delivered.err >= 1 /\ delivered.ok = 0 /\ ret \notin OutputErrors)
        => /\ ret = "Ok"
           /\ result.failures = requests
           /\ result.success = 0
           /\ result.completed = requests

\* C5 witness: a run saving its responses returns after three failed requests.
C5_Witness ==
    /\ ret = "Ok"
    /\ output_dir
    /\ delivered.ok = 0
    /\ delivered.err = 3

\* C6: in a run that returns Ok every index 0..N-1 is started exactly once and
\* its outcome is aggregated exactly once; no index is started or aggregated
\* twice at any point.
C6_ExactlyOnce ==
    /\ \A j \in DOMAIN started : started[j] = j - 1
    /\ \A i \in DOMAIN aggregated : aggregated[i] <= 1
    /\ ret = "Ok" => /\ Len(started) = requests
                     /\ \A i \in DOMAIN aggregated : aggregated[i] = 1

\* C6 witness: a run of three requests over two slots returns Ok with
\* successes and failures.
C6_Witness ==
    /\ ret = "Ok"
    /\ requests = 3
    /\ concurrency = 2
    /\ delivered.ok >= 1
    /\ delivered.err >= 1

\* C7: outcomes are taken in completion order: the future whose outcome the
\* loop takes had finished before every other finished future, whatever the
\* indices, and is not held back behind a lower index still in flight.
C7_CompletionOrder ==
    [][aggregated' # aggregated =>
          LET j == cur'.index
          IN  /\ j \in InFlight
              /\ \A i \in InFlight \ {j} :
                    tasks[i].st = "woken" =>
                        Position(ready_to_run, j) < Position(ready_to_run, i)]_vars

\* C7 witness: request 1 was aggregated while request 0 is still in flight.
C7_Witness ==
    /\ requests >= 2
    /\ aggregated[1] = 1
    /\ 0 \in InFlight
    /\ tasks[0].st = "io"

\* C8: completions are handled one at a time: a completion is taken only when
\* the counter update, the write and the in_progress call of every earlier
\* one are done.
C8_OneAtATime ==
    /\ result.completed - in_progress.calls \in {0, 1}
    /\ pc \in {"next", "polling"} =>
          /\ in_progress.calls = result.completed
          /\ output_dir => files.writes = result.completed
    /\ pc = "write" =>
          /\ result.completed = in_progress.calls + 1
          /\ files.writes = in_progress.calls

\* C8 witness: a second future has finished while the output file of the
\* first completion is being written.
C8_Witness ==
    /\ pc = "write"
    /\ result.completed = 1
    /\ \E i \in InFlight : tasks[i].st = "woken"

\* C9: in_progress is called after every completion: its k-th call sees
\* completed = k, and a run that returns Ok has called it N times.
C9_CallbackEveryCompletion ==
    /\ in_progress.calls = in_progress.seen.completed
    /\ pc \in {"next", "polling"} => in_progress.calls = NumAggregated
    /\ ret = "Ok" => in_progress.calls = requests

\* C9 witness: a run saving its responses returns Ok after three calls, with a
\* failed request among them.
C9_Witness ==
    /\ ret = "Ok"
    /\ output_dir
    /\ in_progress.calls = 3
    /\ delivered.err >= 1
    /\ delivered.ok >= 1

\* C10: a response with a 4xx/5xx status is an Err outcome, like a transport
\* error: it adds one to failures and to completed and changes nothing else of
\* the result (success, total_duration, durations).
C10_HttpErrorIsFailure ==
    [][(aggregated' # aggregated
            /\ (HttpError(cur'.raw) \/ cur'.raw = TransportError))
          => /\ cur'.res = "Err"
             /\ result' = [result EXCEPT !.failures = @ + 1, !.completed = @ + 1]]_vars

\* C10 witness: a 404 response was just counted as the first failure after a
\* success with a duration.
C10_Witness ==
    /\ pc \in {"write", "next"}
    /\ cur.raw.transport = "Ok"
    /\ cur.raw.status = 404
    /\ cur.duration = 1
    /\ result.failures = 1
    /\ result.success = 1
    /\ result.total_duration = 1

C12_StreamingAvgOverCompleted ==
    in_progress.calls >= 1 =>
        in_progress.seen.avg =
            in_progress.seen.total_duration \div in_progress.seen.completed

\* The number of entries of s that satisfy Test.
Count(s, Test(_)) == Cardinality({i \in DOMAIN s : Test(s[i])})

\* v is what stands at 0-based position index when s is put in ascending order.
IsAtSortedIndex(s, index, v) ==
    LET below(x) == x < v
        upTo(x) == x <= v
    IN  /\ \E i \in DOMAIN s : s[i] = v
        /\ Count(s, below) <= index
        /\ index < Count(s, upTo)

IsAscending(s) == \A i, j \in DOMAIN s : i <= j => s[i] <= s[j]

IsPermutation(s, t) ==
    /\ Len(s) = Len(t)
    /\ \A v \in Range(s) \cup Range(t) :
          LET same(x) == x = v IN Count(s, same) = Count(t, same)

FloorIndex(len, pct) == (len * pct) \div 100

GetQuantilesReturned == api = "get_quantiles" /\ pc = "returned"

\* C13: get_quantiles leaves the durations sorted ascending and returns, for
\* each p of 0.5, 0.9, 0.95, the element at index floor(len * p) of the sorted
\* list; the durations 1s..10s give 6s, 10s, 10s.
C13_QuantileAtFloorIndex ==
    (GetQuantilesReturned /\ cur.quantiles = <<50, 90, 95>> /\ cur.durations # <<>>) =>
        /\ IsAscending(result.durations)
        /\ IsPermutation(result.durations, cur.durations)
        /\ Len(ret) = 3
        /\ \A k \in 1..3 :
              IsAtSortedIndex(cur.durations,
                              FloorIndex(Len(cur.durations), cur.quantiles[k]),
                              ret[k])
        /\ cur.durations \in TestDurations => ret = <<6, 10, 10>>

\* C13 witness: the durations 10s..1s, given unsorted, come back sorted with
\* the quantiles 6s, 10s, 10s.
C13_Witness ==
    /\ GetQuantilesReturned
    /\ cur.quantiles = <<50, 90, 95>>
    /\ cur.durations = [i \in 1..10 |-> 11 - i]
    /\ result.durations = [i \in 1..10 |-> i]
    /\ ret = <<6, 10, 10>>

C15_NoSuccessAllZero ==
    /\ \A q \in Quantiles : get_quantiles(<<>>, q) = [k \in DOMAIN q |-> 0]
    /\ (ret = "Ok" /\ result.success = 0) =>
          /\ result.durations = <<>>
          /\ result.p50 = 0 /\ result.p90 = 0 /\ result.p95 = 0
          /\ result.avg = 0 /\ result.min = 0 /\ result.max = 0

\* C15 witness: a finished run of three requests that all failed.
C15_Witness ==
    /\ ret = "Ok"
    /\ requests = 3
    /\ result.success = 0
    /\ result.failures = 3
    /\ result.p50 = 0 /\ result.p95 = 0

\* The number of decimal digits of n >= 1, and the number a digit string reads as.
DecimalDigits(n) == CHOOSE k \in 1..10 : 10 ^ (k - 1) <= n /\ n < 10 ^ k
DecimalValue(ds) == SumSeq([i \in DOMAIN ds |-> ds[i] * 10 ^ (Len(ds) - i)])

GetOutputFileReturned == api = "get_output_file" /\ pc = "returned"

\* C16: the file of iteration i + 1 of an N-request run is named "success" or
\* "failure", then i + 1 zero-padded to exactly the number of decimal digits of
\* N, then the source label only when there is one; N = 100 and index 2 give
\* the number 003.
C16_OutputFileName ==
    GetOutputFileReturned =>
        /\ ret.prefix = IF cur.success THEN "success" ELSE "failure"
        /\ Len(ret.number) = DecimalDigits(cur.num_requests)
        /\ \A k \in DOMAIN ret.number : ret.number[k] \in 0..9
        /\ DecimalValue(ret.number) = cur.iteration
        /\ ret.label = cur.base_file_name
        /\ (cur.num_requests = 100 /\ cur.iteration = 3) => ret.number = <<0, 0, 3>>

\* C16 witness: success-003-<label>.json of a 100-request run.
C16_Witness ==
    /\ GetOutputFileReturned
    /\ cur.num_requests = 100
    /\ cur.iteration = 3
    /\ cur.base_file_name # NoLabel
    /\ ret = [prefix |-> "success", number |-> <<0, 0, 3>>, label |-> cur.base_file_name]

\* The files written so far whose name starts with prefix.
Written(prefix) == {f \in files.written : f.prefix = prefix}

\* The completions aggregated whose file is not written yet: the one being
\* written, if any.
PendingWrite(res) == IF pc = "write" /\ cur.res = res THEN 1 ELSE 0

\* C17: with an output directory and no write error, one file is written per
\* completed request, named success iff the request succeeded, no two requests
\* write the same path, and a finished 3-request run whose requests all failed
\* leaves exactly 3 failure files and no success file.
C17_OneFilePerRequest ==
    (output_dir /\ ret # "Err(write)") =>
        /\ files.writes = result.completed - PendingWrite("Ok") - PendingWrite("Err")
        /\ Cardinality(files.written) = files.writes
        /\ \A f, g \in files.written : f.number = g.number => f = g
        /\ Cardinality(Written("success")) = result.success - PendingWrite("Ok")
        /\ Cardinality(Written("failure")) = result.failures - PendingWrite("Err")
        /\ (pc = "next" /\ cur.res # "none") =>
              \E f \in files.written :
                  /\ DecimalValue(f.number) = cur.index + 1
                  /\ f.prefix = "success" <=> cur.res = "Ok"
        /\ (ret = "Ok" /\ requests = 3 /\ result.failures = 3) =>
              /\ Cardinality(Written("failure")) = 3
              /\ Written("success") = {}

\* C17 witness: a finished 3-request run with an output directory in which
\* every request failed.
C17_Witness ==
    /\ output_dir
    /\ ret = "Ok"
    /\ requests = 3
    /\ result.failures = 3
    /\ Cardinality(Written("failure")) = 3

\* The file Order::Sequential gives request index i.
SequentialFile(i) == file_names[(i % Len(file_names)) + 1]

\* C18: in run_from_dir with Order::Sequential over k >= 1 files, request i
\* uses the file at position i mod k of the sorted file list, whatever the
\* order of completion, and its source label is that file's stem.
C18_SequentialCycles ==
    (api = "run_from_dir" /\ order = "Sequential" /\ Len(file_names) >= 1) =>
        /\ IsAscending(file_names)
        /\ \A i \in DOMAIN tasks : tasks[i].file = SequentialFile(i)
        /\ cur.res # "none" => cur.label = SequentialFile(cur.index)
        /\ \A f \in files.written :
              f.label = SequentialFile(DecimalValue(f.number) - 1)

\* C18 witness: two files and three requests; request 2 wraps around to the
\* first file and completes while request 1 is still in flight, and request 0
\* has its file written.
C18_Witness ==
    /\ api = "run_from_dir"
    /\ order = "Sequential"
    /\ file_names = <<1, 2>>
    /\ requests = 3
    /\ cur.index = 2
    /\ cur.res # "none"
    /\ cur.label = 1
    /\ 1 \in DOMAIN tasks
    /\ tasks[1].file = 2
    /\ \E f \in files.written : f.number = <<1>> /\ f.label = 1

\* Nothing of a request has happened: no file was chosen or read, no request
\* was created or sent, nothing was aggregated and in_progress was not called.
NothingSent ==
    /\ started = <<>>
    /\ tasks = NoTasks
    /\ cur = NoItem
    /\ NumAggregated = 0
    /\ result = LoadTestResult_new
    /\ in_progress.calls = 0
    /\ files.writes = 0

\* C19: run_from_dir and debug_from_dir with GET or HEAD return the method
\* error, with the directory not listed, no file read, no request sent,
\* nothing aggregated and the callback never called.
C19_DirRejectsGetHead ==
    (api \in {"run_from_dir", "debug_from_dir"} /\ method \in {"Get", "Head"}) =>
        /\ pc = "returned"
        /\ ret = "Err(method)"
        /\ file_names = <<>>
        /\ NothingSent

\* C19 witness: debug_from_dir called with HEAD has returned the method error.
C19_Witness ==
    /\ api = "debug_from_dir"
    /\ method = "Head"
    /\ ret = "Err(method)"
    /\ NothingSent

\* C20 (as claimed): run() and debug() with GET or HEAD and a non-empty body
\* return an error and send no request.
C20_BodyRejectedForGetHead ==
    (api \in {"run", "debug"} /\ method \in {"Get", "Head"}
        /\ body.data # <<>>) =>
        /\ ret \notin {"Ok", "Ok(Response)"}
        /\ NothingSent

NewReturned == api = "new" /\ pc = "returned"

\* C21: new() without TLS inputs fails, creating no runner, iff the URL is
\* empty, N = 0, C = 0 or C > N; the first check violated, in that order, gives
\* the message; C = N is accepted.
C21_NewValidates ==
    NewReturned =>
        LET url == cur.url
            n == cur.requests
            c == cur.concurrency
        IN  /\ ret.res = "Err" <=> (url = "" \/ n = 0 \/ c = 0 \/ c > n)
            /\ ret.res = "Err" => requests = 0 /\ concurrency = 0
            /\ ret.res = "Ok" => requests = n /\ concurrency = c
            /\ url = "" => ret.error = "URL cannot be empty"
            /\ (url # "" /\ n = 0) => ret.error = "Number of requests cannot be zero"
            /\ (url # "" /\ n # 0 /\ c = 0) =>
                  ret.error = "Number of concurrency cannot be zero"
            /\ (url # "" /\ n # 0 /\ c # 0 /\ c > n) =>
                  /\ ret.error =
                       "Number of concurrency: {} must be less than number of requests: {}"
                  /\ ret.concurrency = c
                  /\ ret.requests = n
            /\ (url # "" /\ n >= 1 /\ c = n) => ret.res = "Ok"

\* C21 witness: every check is violated at once and the URL message wins.
C21_Witness ==
    /\ NewReturned
    /\ cur.url = ""
    /\ cur.requests = 0
    /\ cur.concurrency = 0
    /\ ret.error = "URL cannot be empty"
    /\ requests = 0

\* A run whose requests can all be created and that persists nothing.
RunStarts ==
    /\ pc = "process_stream"
    /\ ~output_dir
    /\ api = "run_from_dir" => file_names # <<>>

ReadErrorTaken == cur' # cur /\ cur'.raw = ReadError

\* C22: in run_from_dir a failed read of a request's file is that request's
\* failure, with zero duration and no request sent: it adds one to failures and
\* completed and nothing else, the run goes on, and, nothing being persisted,
\* it returns Ok with completed = N.
C22_ReadErrorIsPerRequest ==
    /\ [][ReadErrorTaken =>
            /\ api = "run_from_dir"
            /\ cur'.res = "Err"
            /\ cur'.duration = 0
            /\ result' = [result EXCEPT !.failures = @ + 1, !.completed = @ + 1]
            /\ ret' = "none"
            /\ pc' \in {"next", "write"}]_vars
    /\ (cur.raw = ReadError /\ ~output_dir) ~>
            (ret = "Ok" /\ result.completed = requests /\ result.failures >= 1)

\* C22 witness: the file of the first of two requests could not be read, and
\* the other request has completed with a success.
C22_Witness ==
    /\ api = "run_from_dir"
    /\ requests = 2
    /\ \E f \in files.written : f.prefix = "failure" /\ f.number = <<1>>
    /\ result.failures = 1
    /\ result.success = 1
    /\ cur.raw = ReadError
    /\ cur.index = 0

\* Some aggregated completion has no output file although its write is over.
WriteFailed ==
    /\ output_dir
    /\ files.writes < result.completed - PendingWrite("Ok") - PendingWrite("Err")

\* C23: when the write of a completed request's output file fails, the run has
\* returned the error: in_progress was not called for that completion, and no
\* completion is aggregated and no request started after it.
C23_WriteErrorIsFatal ==
    WriteFailed =>
        /\ pc = "returned"
        /\ ret = "Err(write)"
        /\ files.writes = result.completed - 1
        /\ in_progress.calls = result.completed - 1
        /\ in_progress.seen # result
        /\ NumAggregated = result.completed
        /\ tasks = NoTasks
        /\ ~ENABLED Next

\* C23 witness: the first two writes succeeded and the third failed while
\* requests were still pending.
C23_Witness ==
    /\ ret = "Err(write)"
    /\ requests = 3
    /\ concurrency = 1
    /\ result.completed = 2
    /\ files.writes = 1
    /\ in_progress.calls = 1
    /\ iter = 2

\* C24: with an output directory, create_dir_all succeeds exactly once before
\* the first request is started (and is not called without one); when it fails
\* the run returns the error with no request started and no callback call.
C24_OutputDirCreatedFirst ==
    /\ files.dirs <= 1
    /\ ~output_dir => files.dirs = 0
    /\ pc \in {"idle", "process_stream"} => files.dirs = 0 /\ started = <<>>
    /\ (output_dir /\ (started # <<>> \/ files.writes > 0 \/ ret = "Ok")) =>
          files.dirs = 1
    /\ ret = "Err(create_dir_all)" =>
          /\ output_dir
          /\ pc = "returned"
          /\ files.dirs = 0
          /\ NothingSent

\* C24 witness: the directory was created once and all three requests of the
\* run were started after it.
C24_Witness ==
    /\ output_dir
    /\ files.dirs = 1
    /\ requests = 3
    /\ Len(started) = 3
    /\ ret = "Ok"

\* C26: in run() with a file body the file is read exactly once, before any
\* request is started, and every request is built with the same bytes; a path
\* that is missing or no regular file is never read and gives an error with no
\* request started.
C26_FileBodyReadOnce ==
    /\ pc = "idle" => files.reads = 0 /\ started = <<>>
    /\ api = "run" =>
          /\ files.reads = IF body.source = "DataFile" THEN 1 ELSE 0
          /\ body.source = "DataFile" => body.data = <<1>>
          /\ \A i \in DOMAIN tasks : tasks[i].data = body.data
          /\ body.source = "DataFile_missing" =>
                /\ pc = "returned"
                /\ ret = "Err(get_data)"
                /\ NothingSent

\* C26 witness: a run of three requests with a file body, read once; one
\* request has completed and two are in flight with the file's bytes.
C26_Witness ==
    /\ api = "run"
    /\ body.source = "DataFile"
    /\ files.reads = 1
    /\ requests = 3
    /\ result.completed = 1
    /\ DOMAIN tasks = {1, 2}
    /\ tasks[1].data = <<1>>
    /\ tasks[2].data = <<1>>

DebugMode == api \in {"debug", "debug_from_dir"}

\* C27: debug and debug_from_dir send one request whatever N and C are, leave
\* the scheduler, the aggregator, the callback and the output files untouched,
\* and return the response as Ok whatever its status; only a transport error
\* is an Err.
C27_DebugSendsOne ==
    DebugMode =>
        /\ pc = "returned"
        /\ iter = 0 /\ started = <<>> /\ tasks = NoTasks
        /\ result = LoadTestResult_new
        /\ NumAggregated = 0
        /\ in_progress.calls = 0
        /\ files.writes = 0 /\ files.dirs = 0
        /\ cur = NoItem => ret \notin {"Ok(Response)", "Err(send)"}
        /\ cur # NoItem =>
              /\ cur.raw \in RawResponses
              /\ ret = "Ok(Response)" <=> cur.raw.transport = "Ok"
              /\ ret = "Err(send)" <=> cur.raw = TransportError
        /\ ~ENABLED Next

\* C27 witness: on a runner with N = 3 and C = 2, debug_from_dir got a 500
\* response and returned it as Ok.
C27_Witness ==
    /\ api = "debug_from_dir"
    /\ requests = 3
    /\ concurrency = 2
    /\ cur.raw = [transport |-> "Ok", status |-> 500]
    /\ ret = "Ok(Response)"
    /\ result = LoadTestResult_new

\* C28: run_from_manifest selects as run_from_dir does: with Sequential order
\* request i is built from manifest entry i mod entry_count, with Random order
\* from some entry drawn for it, and the entries are parsed once, before the
\* first request, and never change.
C28_ManifestSelection ==
    /\ [](api = "run_from_manifest" =>
            /\ \A i \in DOMAIN tasks :
                  /\ tasks[i].file \in Range(file_names)
                  /\ tasks[i].data = <<tasks[i].file>>
                  /\ order = "Sequential" => tasks[i].file = SequentialFile(i)
            /\ started # <<>> => file_names \in Manifests)
    /\ [][pc # "idle" => file_names' = file_names]_vars

\* C28 witness: Sequential order over the two entries <<2, 1>> and three
\* requests; request 1 (entry 1) is in flight and request 2 wraps around to
\* the first entry, 2.
C28_Witness ==
    /\ api = "run_from_manifest"
    /\ order = "Sequential"
    /\ file_names = <<2, 1>>
    /\ requests = 3
    /\ DOMAIN tasks = {1, 2}
    /\ tasks[1].file = 1
    /\ tasks[2].file = 2

\* C29: requests are started in the order 0, 1, ..., N-1 whatever the order of
\* completion, and a request has its body file selected exactly from the
\* moment it is started: no index that is not started yet has a future, a
\* selection or an outcome.
C29_StartedInIndexOrder ==
    /\ \A k \in DOMAIN started : started[k] = k - 1
    /\ iter = Len(started)
    /\ \A i \in DOMAIN tasks :
          /\ i < Len(started)
          /\ api = "run_from_dir" => tasks[i].file \in Range(file_names)
    /\ \A i \in DOMAIN aggregated :
          i >= Len(started) => aggregated[i] = 0 /\ i \notin DOMAIN tasks
    /\ cur # NoItem /\ ~DebugMode => cur.index < Len(started)

\* C29 witness: in run_from_dir request 1 completed before request 0, which is
\* still in flight with its file, and request 2 was started after both.
C29_Witness ==
    /\ api = "run_from_dir"
    /\ order = "Random"
    /\ started = <<0, 1, 2>>
    /\ aggregated[1] = 1
    /\ aggregated[0] = 0
    /\ DOMAIN tasks = {0, 2}
    /\ tasks[0].file = 2
    /\ tasks[2].file = 1

\* The loop body is running for a completion it has taken.
Handling == pc = "write" \/ (pc = "next" /\ cur # NoItem)

\* C30: requests are started only by the loop's call of stream.next(), after
\* the handling of the last completion (counters, output file, in_progress) has
\* returned; while a completion is handled nothing is started, though requests
\* are pending and a slot is free.
C30_StartsOnlyOnNext ==
    /\ [][started' # started =>
            /\ pc = "next"
            /\ pc' = "polling"
            /\ in_progress.calls = result.completed
            /\ output_dir => files.writes = result.completed
            /\ UNCHANGED <<result, in_progress, files>>]_vars
    /\ [][pc = "write" => UNCHANGED <<started, iter>>]_vars
    /\ [](Handling => Cardinality(DOMAIN tasks) <= concurrency - 1)

\* C30 witness: the output file of the first completion is being written; a
\* slot is free and the third request waits for it.
C30_Witness ==
    /\ pc = "write"
    /\ requests = 3
    /\ concurrency = 2
    /\ result.completed = 1
    /\ Cardinality(DOMAIN tasks) = 1
    /\ Len(started) = 2

\* The step in which the loop body takes a failed completion.
FailureTaken == delivered'.err = delivered.err + 1

\* C32: handling a failed completion adds one to failures and to completed and
\* leaves every other field of the result as it was: total_duration, the
\* durations list, min and max (and success, avg and the quantiles).
C32_FailureLeavesStatistics ==
    [][FailureTaken =>
            result' = [result EXCEPT !.failures = @ + 1, !.completed = @ + 1]]_vars

\* C32 witness: a failed completion has been taken after a success with a
\* duration above zero.
C32_Witness ==
    /\ pc \in {"write", "next"}
    /\ cur.res = "Err"
    /\ result.failures = 1
    /\ result.success >= 1
    /\ result.total_duration >= 1
    /\ result.min >= 1
    /\ result.durations # <<>>

\* The smallest element of a non-empty list.
Smallest(s) == CHOOSE m \in Range(s) : \A x \in Range(s) : m <= x

\* C33 (as claimed): at every in_progress call that follows a success, and in the returned
\* result, min is the smallest of the successful durations recorded so far, a
\* duration of zero included.
C33_MinIsSmallest ==
    /\ in_progress.seen.success >= 1
            => in_progress.seen.min = Smallest(in_progress.seen.durations)
    /\ (ret = "Ok" /\ result.success >= 1)
            => result.min = Smallest(result.durations)

\* The largest element of a list, zero for the empty list.
Largest(s) ==
    IF s = <<>> THEN 0 ELSE CHOOSE m \in Range(s) : \A x \in Range(s) : x <= m

\* C34: in the returned result max is the largest successful duration, and
\* p50 <= p90 <= p95 <= max, whatever durations were recorded.
C34_MaxAndQuantileOrder ==
    ret = "Ok" =>
        /\ result.max = Largest(result.durations)
        /\ result.p50 <= result.p90
        /\ result.p90 <= result.p95
        /\ result.p95 <= result.max

\* C34 witness: a run returned three successes, the longest of them the first
\* to complete, with p50 below p90.
C34_Witness ==
    /\ ret = "Ok"
    /\ in_progress.seen.durations = <<1, 0, 0>>
    /\ result.p50 = 0
    /\ result.p90 = 1
    /\ result.max = 1

\* The number of times v stands in s.
Occurrences(s, v) == Cardinality({i \in DOMAIN s : s[i] = v})

\* Every element of s is kept in t, as many times at least.
KeepsElements(s, t) ==
    /\ Len(s) <= Len(t)
    /\ \A v \in Range(s) : Occurrences(s, v) <= Occurrences(t, v)

\* C35: at every in_progress call and in the returned result total_duration is
\* the sum of the durations list; during a run the list never loses an element
\* and total_duration never decreases.
C35_TotalIsSumAndGrows ==
    /\ [](/\ result.total_duration = SumSeq(result.durations)
          /\ in_progress.seen.total_duration = SumSeq(in_progress.seen.durations))
    /\ [][/\ result'.total_duration >= result.total_duration
          /\ KeepsElements(result.durations, result'.durations)
          /\ in_progress'.seen.total_duration >= in_progress.seen.total_duration
          /\ KeepsElements(in_progress.seen.durations, in_progress'.seen.durations)]_vars

\* C35 witness: a run returned after two successes of duration 1 and a failure.
C35_Witness ==
    /\ ret = "Ok"
    /\ result.failures = 1
    /\ result.durations = <<1, 1>>
    /\ result.total_duration = 2
    /\ in_progress.seen.total_duration = 2

\* C36: the durations list of the returned result is the ascending sort of the
\* successful durations recorded during the run, which are those the last
\* in_progress call received: the same values, each as many times, none added,
\* dropped or changed.
C36_ReturnedDurationsSorted ==
    ret = "Ok" =>
        /\ IsAscending(result.durations)
        /\ IsPermutation(result.durations, in_progress.seen.durations)
        /\ Len(result.durations) = result.success

\* C36 witness: the durations were recorded out of order, with a value twice,
\* and the returned list is their sort.
C36_Witness ==
    /\ ret = "Ok"
    /\ in_progress.seen.durations = <<1, 0, 1>>
    /\ result.durations = <<0, 1, 1>>

\* The values an entry point returns as Err(_) to its caller.
ErrorValues ==
    {"Err(method)", "Err(read_dir)", "Err(get_data)", "Err(create_dir_all)",
     "Err(write)", "Err(read)", "Err(send)"}

\* C37 (as claimed): run_from_dir on a directory without regular files returns
\* an error value before any request is started, in Sequential and in Random
\* order alike, and never ends in a panic.
C37_EmptyDirIsError ==
    (api = "run_from_dir" /\ file_names = <<>>) =>
        /\ ret # "panic"
        /\ pc = "returned" => ret \in ErrorValues
        /\ started = <<>>

\* f is the one name the output file of request i can have under the
\* assignment: success or failure as assigned to i, the number i + 1 in as many
\* digits as the number of requests has, and the stem of the file of i.
IsOutputFileOf(f, i) ==
    /\ f.prefix = IF assignment[i] THEN "success" ELSE "failure"
    /\ DecimalValue(f.number) = i + 1
    /\ Len(f.number) = DecimalDigits(requests)
    /\ f.label = IF api = "run" THEN NoLabel ELSE SequentialFile(i)

\* The run takes its bodies by index: run(), or run_from_dir in Sequential order.
BodiesByIndex == api = "run" \/ (api = "run_from_dir" /\ order = "Sequential")

\* C31: an output file is numbered by the submission index of its request
\* (index + 1), not by its place in the completion order: with the outcomes of
\* the indices fixed, every file written is the file of its index, and once all
\* are written the set of names is the one the assignment fixes, the same for
\* every completion order.
C31_FilesByIndex ==
    (assignment # NoAssignment /\ BodiesByIndex) =>
        /\ \A f \in files.written :
                \E i \in 0..(requests - 1) : IsOutputFileOf(f, i)
        /\ files.writes = requests =>
                \A i \in 0..(requests - 1) :
                    \E f \in files.written : IsOutputFileOf(f, i)

\* C31 witness: of two requests in flight together the second, a success,
\* completed first and the first, a failure, last; both files are written.
C31_Witness ==
    /\ api = "run_from_dir"
    /\ order = "Sequential"
    /\ requests = 2
    /\ assignment # NoAssignment
    /\ ~assignment[0]
    /\ assignment[1]
    /\ pc = "next"
    /\ cur.index = 0
    /\ files.writes = 2
    /\ Cardinality(files.written) = 2

====
